---- MODULE Spec2Model ----
(***************************************************************************)
(* Model of Main.py: AX.25 framing (encode_callsign, ax25_frame,           *)
(* crc16_ccitt), the differential bit encoder (generate_bitstream), the    *)
(* AFSK synthesiser (generate_continuous_tone, afsk_encode,                *)
(* highpass_filter) and the transmission request (APRSGUI.play_aprs with   *)
(* save_to_wav and play_audio).                                            *)
(*                                                                         *)
(* Strings are sequences of Unicode code points, byte arrays are sequences *)
(* of integers in 0..255.  A Python exception is the "err" field of the    *)
(* value a function returns.                                               *)
(***************************************************************************)
EXTENDS Integers, Sequences, FiniteSets, TLC

VARIABLES
    crcData, crcOut,                        \* crc16_ccitt: argument, result
    csCall, csSsid, csOut,                  \* encode_callsign: arguments, result
    source, destination, path, info, axOut, \* ax25_frame: arguments, result
    bsPacket, bsOut,                        \* generate_bitstream: argument, result
    \* afsk_encode
    afPacket,   \* the argument
    afPc,       \* where the call is: "start", "tone", "normalize", "filter", "done"
    afBits,     \* bitstream
    afRuns,     \* audio before line 100: one <<frequency, phase>> for each tone
                \* extended into it, 320 samples each
    afPhase,    \* phase, in thirds of a cycle (2*pi/3)
    afMax,      \* max_amplitude, -1 before line 100
    afPrev,     \* highpass_filter: prev_sample
    afLast,     \* highpass_filter: filtered_data[-1]
    afCount,    \* highpass_filter: len(filtered_data)
    \* play_aprs
    txPc,       \* where the handler is: "idle", "frame", "encode", "open",
                \* "write", "play", "done", "failed"
    txInfo,     \* info
    txPacket,   \* packet
    txAudio,    \* audio_signal: "none" before afsk_encode returns, then "complete"
    txName,     \* filename: the second of the clock it is made from, 0 before
    txClock,    \* the clock, in seconds
    txDisk,     \* the file of each name: "absent", "partial" or "complete"
    txPlayed    \* the names given to play_audio

crcVars == <<crcData, crcOut>>
csVars == <<csCall, csSsid, csOut>>
axVars == <<source, destination, path, info, axOut>>
bsVars == <<bsPacket, bsOut>>
afVars == <<afPacket, afPc, afBits, afRuns, afPhase, afMax, afPrev, afLast, afCount>>
txVars == <<txPc, txInfo, txPacket, txAudio, txName, txClock, txDisk, txPlayed>>

vars == <<crcVars, csVars, axVars, bsVars, afVars, txVars>>

(***************************************************************************)
(* Bounds of the model.                                                    *)
(***************************************************************************)
MaxCrcLen == 2
MaxPath == 2
MaxInfoLen == 2
MaxBitsLen == 2
MaxAfskLen == 1
MaxRequests == 2

(***************************************************************************)
(* Program constants (Main.py lines 9-16).                                 *)
(***************************************************************************)
SAMPLE_RATE == 96000
BAUD_RATE == 300
MARK_TONE == 1800
SPACE_TONE == 1600
DURATION_PER_BIT == SAMPLE_RATE \div BAUD_RATE
FLAG == 126
POLY == 33800
PREAMBLE_LENGTH == 32

(***************************************************************************)
(* Values.                                                                 *)
(***************************************************************************)
None == [err |-> "unset", bytes |-> <<>>]
Ok(b) == [err |-> "none", bytes |-> b]
Raise(e) == [err |-> e, bytes |-> <<>>]

\* all sequences over S of length 0..n
SeqsUpTo(S, n) == UNION {[1..k -> S] : k \in 0..n}

RECURSIVE Pow2(_)
Pow2(n) == IF n = 0 THEN 1 ELSE 2 * Pow2(n - 1)

Abs(x) == IF x < 0 THEN -x ELSE x

(***************************************************************************)
(* Python's integer operators ^ and | on non-negative integers.            *)
(***************************************************************************)
RECURSIVE BitXor(_, _)
BitXor(a, b) ==
    IF a = 0 THEN b
    ELSE IF b = 0 THEN a
    ELSE (((a % 2) + (b % 2)) % 2) + 2 * BitXor(a \div 2, b \div 2)

RECURSIVE BitOr(_, _)
BitOr(a, b) ==
    IF a = 0 THEN b
    ELSE IF b = 0 THEN a
    ELSE (IF a % 2 = 1 \/ b % 2 = 1 THEN 1 ELSE 0) + 2 * BitOr(a \div 2, b \div 2)

(***************************************************************************)
(* crc16_ccitt (Main.py lines 49-58).                                      *)
(***************************************************************************)
\* CrcShift with the unreflected polynomial 0x1021 in place of POLY
CrcShiftUnreflected(crc) ==
    IF crc % 2 = 1 THEN BitXor(crc \div 2, 4129) ELSE crc \div 2

\* one pass of the inner loop body, lines 54-57
CrcShift(crc) ==
    IF crc % 2 = 1 THEN BitXor(crc \div 2, POLY) ELSE crc \div 2

\* for _ in range(8), lines 53-57: the register after n passes
RECURSIVE CrcShifts(_, _)
CrcShifts(crc, n) == IF n = 0 THEN crc ELSE CrcShift(CrcShifts(crc, n - 1))

\* for byte in data, lines 51-57, from the i-th byte on.  The register is
\* never negative; comparing it with 0 makes TLC evaluate it before it goes on
\* to the next byte, which keeps the evaluation stack shallow.
RECURSIVE CrcBytes(_, _, _)
CrcBytes(crc, data, i) ==
    IF i > Len(data) \/ crc < 0 THEN crc
    ELSE CrcBytes(CrcShifts(BitXor(crc, data[i]), 8), data, i + 1)

crc16_ccitt(data) == BitXor(CrcBytes(65535, data, 1), 65535)

(***************************************************************************)
(* encode_callsign (Main.py lines 29-33).                                  *)
(***************************************************************************)
\* str.ljust(6): pad on the right with spaces up to 6 characters
Ljust6(s) == IF Len(s) >= 6 THEN s ELSE s \o [i \in 1..(6 - Len(s)) |-> 32]

\* s[:6]
First6(s) == IF Len(s) <= 6 THEN s ELSE SubSeq(s, 1, 6)

\* str.upper() of one character of U+0000..U+00FF: a-z go to A-Z, U+00DF
\* (sharp s) becomes "SS", U+00E0..U+00FE except U+00F7 go to U+00C0..U+00DE,
\* U+00B5 goes to U+039C and U+00FF to U+0178; the others are unchanged
UpperChar(c) ==
    IF c >= 97 /\ c <= 122 THEN <<c - 32>>
    ELSE IF c = 223 THEN <<83, 83>>
    ELSE IF c >= 224 /\ c <= 254 /\ c # 247 THEN <<c - 32>>
    ELSE IF c = 181 THEN <<924>>
    ELSE IF c = 255 THEN <<376>>
    ELSE <<c>>

RECURSIVE Upper(_)
Upper(s) == IF s = <<>> THEN <<>> ELSE UpperChar(Head(s)) \o Upper(Tail(s))

\* bytearray(...) and bytearray.append raise ValueError outside range(0, 256)
encode_callsign(callsign, ssid) ==
    LET cs == Upper(First6(Ljust6(callsign)))
        shifted == [i \in 1..Len(cs) |-> cs[i] * 2]
        last == BitOr(ssid * 2, 96)
    IN  IF \E i \in 1..Len(shifted) : shifted[i] > 255 THEN Raise("ValueError")
        ELSE IF last > 255 THEN Raise("ValueError")
        ELSE Ok(Append(shifted, last))

(***************************************************************************)
(* ax25_frame (Main.py lines 35-47).                                       *)
(***************************************************************************)
\* lines 39-40: the encoded path addresses, in order, from the i-th on; the
\* first address that raises ends the loop with its exception
RECURSIVE PathAddresses(_, _)
PathAddresses(p, i) ==
    IF i > Len(p) THEN Ok(<<>>)
    ELSE LET a == encode_callsign(p[i], 0)
             rest == PathAddresses(p, i + 1)
         IN  IF a.err # "none" THEN a
             ELSE IF rest.err # "none" THEN rest
             ELSE Ok(a.bytes \o rest.bytes)

\* MarkLast marking the end of the source address whatever the path
MarkSourceEnd(frame) == [frame EXCEPT ![14] = BitOr(frame[14], 1)]

\* line 41: frame[-1] |= 0x01
MarkLast(frame) == [frame EXCEPT ![Len(frame)] = BitOr(frame[Len(frame)], 1)]

\* line 43: info.encode('ascii')
EncodeAscii(s) ==
    IF \E i \in 1..Len(s) : s[i] > 127 THEN Raise("UnicodeEncodeError") ELSE Ok(s)

\* line 45: crc.to_bytes(2, 'little')
ToBytes2Little(n) == <<n % 256, n \div 256>>

Flags(n) == [i \in 1..n |-> FLAG]

ax25_frame(src, dst, p, inf) ==
    LET d == encode_callsign(dst, 0)
        s == encode_callsign(src, 0)
        pa == PathAddresses(p, 1)
        payload == EncodeAscii(inf)
    IN  IF d.err # "none" THEN d
        ELSE IF s.err # "none" THEN s
        ELSE IF pa.err # "none" THEN pa
        ELSE IF payload.err # "none" THEN payload
        ELSE LET frame == MarkLast(d.bytes \o s.bytes \o pa.bytes)
                          \o <<3, 240>> \o payload.bytes
                 crc == crc16_ccitt(frame)
             IN  Ok(Flags(PREAMBLE_LENGTH) \o frame \o ToBytes2Little(crc) \o <<FLAG>>)

(***************************************************************************)
(* generate_bitstream (Main.py lines 106-120).                             *)
(***************************************************************************)
\* SyncBits with the extend outside the loop: one pair only
SyncBitsOnce(n) == <<0, 1>>

\* lines 108-109: n times the bits 0, 1
SyncBits(n) == [i \in 1..(2 * n) |-> (i + 1) % 2]

\* line 114: (byte >> i) & 1
ByteBit(byte, i) == (byte \div Pow2(i)) % 2

\* DiffStep flipping on a 1 bit instead of a 0 bit
DiffStepOnOne(prev_bit, bit) == IF bit = 1 THEN 1 - prev_bit ELSE prev_bit

\* lines 115-116: prev_bit after an input bit (prev_bit ^= 1 on a 0)
DiffStep(prev_bit, bit) == IF bit = 0 THEN 1 - prev_bit ELSE prev_bit

\* lines 112-117: the bits appended from the k-th input bit on (k counts the
\* bits of the packet from 0, byte by byte, low bit first)
RECURSIVE DiffBits(_, _, _)
DiffBits(packet, k, prev_bit) ==
    IF k >= 8 * Len(packet) THEN <<>>
    ELSE LET bit == ByteBit(packet[(k \div 8) + 1], k % 8)
             now == DiffStep(prev_bit, bit)
         IN  <<now>> \o DiffBits(packet, k + 1, now)

generate_bitstream(packet) ==
    SyncBits(PREAMBLE_LENGTH) \o DiffBits(packet, 0, 1) \o <<0, 1>>

(***************************************************************************)
(* generate_continuous_tone (Main.py lines 74-80), as afsk_encode calls    *)
(* it: amplitude 0.02, frequency a multiple of 200 Hz and phase a multiple *)
(* of a third of a cycle, so that every angle 2*pi*frequency*t/SAMPLE_RATE *)
(* + phase is a multiple of 1/480 of a cycle.  A phase is counted in       *)
(* thirds of a cycle, an angle in 1/480 of a cycle.                        *)
(***************************************************************************)
AngleSteps == 480

\* line 77: int(0.02 * 32767 * math.sin(2 * math.pi * j / 480)) for j = 0..120
SinQuarter == <<
    0, 8, 17, 25, 34, 42, 51, 59, 68, 77, 85, 94,
    102, 110, 119, 127, 136, 144, 152, 161, 169, 177, 186, 194,
    202, 210, 218, 226, 234, 242, 250, 258, 266, 274, 282, 289,
    297, 305, 312, 320, 327, 335, 342, 349, 356, 364, 371, 378,
    385, 392, 398, 405, 412, 419, 425, 432, 438, 444, 451, 457,
    463, 469, 475, 481, 487, 492, 498, 503, 509, 514, 519, 525,
    530, 535, 540, 544, 549, 554, 558, 563, 567, 571, 575, 579,
    583, 587, 591, 595, 598, 602, 605, 608, 611, 614, 617, 620,
    623, 625, 628, 630, 633, 635, 637, 639, 641, 642, 644, 645,
    647, 648, 649, 650, 651, 652, 653, 653, 654, 654, 655, 655,
    655 >>

\* line 77: int(amplitude * 32767 * math.sin(angle)), the angle j/480 of a
\* cycle; int() rounds towards 0, so the wave is odd and symmetric
ToneSample(j) ==
    LET k == j % AngleSteps
        q == k % 240
        v == SinQuarter[(IF q <= 120 THEN q ELSE 240 - q) + 1]
    IN  IF k < 240 THEN v ELSE -v

\* line 77: the angle of sample t of a tone
AngleIndex(frequency, t, phase) ==
    ((frequency * t * AngleSteps) \div SAMPLE_RATE) + 160 * phase

\* line 79: phase += (2 * math.pi * frequency * samples / SAMPLE_RATE) % (2 * math.pi)
NextPhase(frequency, samples, phase) ==
    phase + (((3 * frequency * samples) \div SAMPLE_RATE) % 3)

\* the tone is the list of ToneSample(AngleIndex(frequency, t, phase)) for
\* t in range(samples), held as <<frequency, phase>>
generate_continuous_tone(frequency, samples, phase) ==
    [tone |-> <<frequency, phase>>, phase |-> NextPhase(frequency, samples, phase)]

\* sample t of a tone
RawSample(run, t) == ToneSample(AngleIndex(run[1], t, run[2]))

(***************************************************************************)
(* afsk_encode (Main.py lines 82-104) and highpass_filter (lines 18-27).   *)
(***************************************************************************)
\* ToneFor with the two tones exchanged
ToneForSwapped(bit) == IF bit = 1 THEN SPACE_TONE ELSE MARK_TONE

\* lines 89-96: the tone of a bit
ToneFor(bit) == IF bit = 1 THEN MARK_TONE ELSE SPACE_TONE

\* line 100: max(abs(sample) for sample in audio)
MaxAmplitude(runs) ==
    LET S == {Abs(RawSample(runs[i], t)) :
                 i \in 1..Len(runs), t \in 0..(DURATION_PER_BIT - 1)}
    IN  CHOOSE m \in S : \A x \in S : x <= m

\* IEEE-754 doubles: 655 * (32767 / 655) is 32766.999999999996, one unit
\* in the last place under 32767; 655 is the only max_amplitude of a tone of
\* amplitude 0.02 that reaches its peak
QuotientFallsShort(m) == m = 655

\* lines 101-102: int(sample * (32767 / max_amplitude)) when max_amplitude > 0
Scale(sample, m) ==
    IF m <= 0 THEN sample
    ELSE LET e == Abs(sample) * 32767
             q == IF e > 0 /\ e % m = 0 /\ QuotientFallsShort(m)
                  THEN (e \div m) - 1 ELSE e \div m
         IN  IF sample < 0 THEN -q ELSE q

\* lines 19-20: alpha = RC / (RC + 1.0 / SAMPLE_RATE) with RC = 1.0 / (350 * 2
\* * math.pi) is the double 0x1.f488b70e6959ap-1 = 8805488009844122 / 2^53,
\* here times 2^56 in four digits of 14 bits, the lowest first
AlphaDigits == <<11472, 7378, 1464, 16017>>

\* floor(a * alpha) for a >= 0: long multiplication by the digits of alpha
RECURSIVE AlphaCarry(_, _)
AlphaCarry(a, k) ==
    IF k = 0 THEN 0
    ELSE (a * AlphaDigits[k] + AlphaCarry(a, k - 1)) \div 16384

\* line 24-25: int(alpha * v)
AlphaMul(v) == IF v < 0 THEN -AlphaCarry(-v, 4) ELSE AlphaCarry(v, 4)

\* FilterInput with the sign of the feedback term slipped
FilterInputPlus(prev_sample, sample, count, last) ==
    prev_sample + sample + (IF count > 0 THEN last ELSE sample)

\* line 24: prev_sample + sample - (filtered_data[-1] if filtered_data else sample)
FilterInput(prev_sample, sample, count, last) ==
    prev_sample + sample - (IF count > 0 THEN last ELSE sample)

(***************************************************************************)
(* Inputs.                                                                 *)
(***************************************************************************)
\* the bytes of "123456789"
CheckString == <<49, 50, 51, 52, 53, 54, 55, 56, 57>>
CrcByteValues == {0, 1, 3, 126, 128, 240, 255}
CrcInputs == SeqsUpTo(CrcByteValues, MaxCrcLen) \cup {CheckString}

CallYourCall == <<89, 111, 117, 114, 67, 97, 108, 108>>   \* "YourCall"
CallIOSPY1 == <<73, 79, 83, 80, 89, 49>>                  \* "IOSPY1"
CallWIDE1 == <<87, 73, 68, 69, 49>>                       \* "WIDE1"
CallWIDE2 == <<87, 73, 68, 69, 50>>                       \* "WIDE2"
CallSharpS == <<107, 223>>                                \* "k" + U+00DF
CallEAcute == <<233>>                                     \* U+00E9
Callsigns == {<<>>, CallYourCall, CallIOSPY1, CallWIDE1, CallWIDE2,
              <<97, 98, 99, 100, 101, 102, 103>>, CallSharpS, CallEAcute}
FrameCalls == {CallYourCall, CallIOSPY1, CallSharpS, CallEAcute}
PathCalls == {CallWIDE1, CallWIDE2, CallSharpS}
Ssids == 0..15
BitsByteValues == {0, 1, 3, 85, 126, 128, 240, 255}
AfskByteValues == {0, 3, 85, 126, 240, 255}
CallPath == <<CallWIDE1, CallWIDE2>>
InfoChars == {64, 233}                                    \* "@", U+00E9

IsAscii(s) == \A i \in 1..Len(s) : s[i] <= 127

(***************************************************************************)
(* The parts of the state a specification does not use.                    *)
(***************************************************************************)
CrcIdle == crcData = <<>> /\ crcOut = -1
CsIdle == csCall = <<>> /\ csSsid = 0 /\ csOut = None
AxIdle ==
    /\ source = <<>> /\ destination = <<>> /\ path = <<>> /\ info = <<>>
    /\ axOut = None
BsIdle == bsPacket = <<>> /\ bsOut = <<>>
AfIdle ==
    /\ afPacket = <<>> /\ afPc = "idle" /\ afBits = <<>> /\ afRuns = <<>>
    /\ afPhase = 0 /\ afMax = -1 /\ afPrev = 0 /\ afLast = 0 /\ afCount = 0
TxIdle ==
    /\ txPc = "off" /\ txInfo = <<>> /\ txPacket = None /\ txAudio = "none"
    /\ txName = 0 /\ txClock = 0 /\ txDisk = <<>> /\ txPlayed = {}

(***************************************************************************)
(* crc16_ccitt applied to a byte sequence.                                 *)
(***************************************************************************)
InitCrc ==
    /\ crcData \in CrcInputs
    /\ crcOut = -1
    /\ CsIdle /\ AxIdle /\ BsIdle /\ AfIdle /\ TxIdle

Crc16 ==
    /\ crcOut = -1
    /\ crcOut' = crc16_ccitt(crcData)
    /\ UNCHANGED <<crcData, csVars, axVars, bsVars, afVars, txVars>>

NextCrc == Crc16
SpecCrc == InitCrc /\ [][NextCrc]_vars

(***************************************************************************)
(* encode_callsign applied to a callsign and an SSID.                      *)
(***************************************************************************)
InitCallsign ==
    /\ csCall \in Callsigns
    /\ csSsid \in Ssids
    /\ csOut = None
    /\ CrcIdle /\ AxIdle /\ BsIdle /\ AfIdle /\ TxIdle

EncodeCallsign ==
    /\ csOut = None
    /\ csOut' = encode_callsign(csCall, csSsid)
    /\ UNCHANGED <<csCall, csSsid, crcVars, axVars, bsVars, afVars, txVars>>

NextCallsign == EncodeCallsign
SpecCallsign == InitCallsign /\ [][NextCallsign]_vars

(***************************************************************************)
(* ax25_frame applied to source, destination, path and info.               *)
(***************************************************************************)
InitFrame ==
    /\ source \in FrameCalls
    /\ destination \in FrameCalls
    /\ path \in SeqsUpTo(PathCalls, MaxPath)
    /\ info \in SeqsUpTo(InfoChars, MaxInfoLen)
    /\ axOut = None
    /\ CrcIdle /\ CsIdle /\ BsIdle /\ AfIdle /\ TxIdle

Ax25Frame ==
    /\ axOut = None
    /\ axOut' = ax25_frame(source, destination, path, info)
    /\ UNCHANGED <<source, destination, path, info, crcVars, csVars, bsVars,
                   afVars, txVars>>

NextFrame == Ax25Frame
SpecFrame == InitFrame /\ [][NextFrame]_vars

(***************************************************************************)
(* generate_bitstream applied to a packet.                                 *)
(***************************************************************************)
InitBits ==
    /\ bsPacket \in SeqsUpTo(BitsByteValues, MaxBitsLen)
    /\ bsOut = <<>>
    /\ CrcIdle /\ CsIdle /\ AxIdle /\ AfIdle /\ TxIdle

GenerateBitstream ==
    /\ bsOut = <<>>
    /\ bsOut' = generate_bitstream(bsPacket)
    /\ UNCHANGED <<bsPacket, crcVars, csVars, axVars, afVars, txVars>>

NextBits == GenerateBitstream
SpecBits == InitBits /\ [][NextBits]_vars

(***************************************************************************)
(* afsk_encode applied to a packet, one step for each pass of its loop     *)
(* over the bits and of highpass_filter's loop over the samples.  The      *)
(* audio list is held as afRuns and, once normalized, afMax: its sample    *)
(* 320 * i + t is Scale(RawSample(afRuns[i + 1], t), afMax).  Of           *)
(* filtered_data the model keeps the length and the last element.          *)
(***************************************************************************)
InitAfsk ==
    /\ afPacket \in SeqsUpTo(AfskByteValues, MaxAfskLen)
    /\ afPc = "start"
    /\ afBits = <<>> /\ afRuns = <<>> /\ afPhase = 0 /\ afMax = -1
    /\ afPrev = 0 /\ afLast = 0 /\ afCount = 0
    /\ CrcIdle /\ CsIdle /\ AxIdle /\ BsIdle /\ TxIdle

\* sample i of audio, from 0
AudioSample(i) ==
    Scale(RawSample(afRuns[(i \div DURATION_PER_BIT) + 1], i % DURATION_PER_BIT), afMax)

AudioLen == DURATION_PER_BIT * Len(afRuns)

\* lines 83-86
AfskStart ==
    /\ afPc = "start"
    /\ afBits' = generate_bitstream(afPacket)
    /\ afPc' = "tone"
    /\ UNCHANGED <<afPacket, afRuns, afPhase, afMax, afPrev, afLast, afCount>>
    /\ UNCHANGED <<crcVars, csVars, axVars, bsVars, txVars>>

\* lines 88-98: one bit
AfskTone ==
    /\ afPc = "tone"
    /\ Len(afRuns) < Len(afBits)
    /\ LET bit == afBits[Len(afRuns) + 1]
           r == generate_continuous_tone(ToneFor(bit), DURATION_PER_BIT, afPhase)
       IN  /\ afRuns' = Append(afRuns, r.tone)
           /\ afPhase' = r.phase
    /\ UNCHANGED <<afPacket, afPc, afBits, afMax, afPrev, afLast, afCount>>
    /\ UNCHANGED <<crcVars, csVars, axVars, bsVars, txVars>>

\* lines 100-102, and lines 19-22 of highpass_filter
AfskNormalize ==
    /\ afPc = "tone"
    /\ Len(afRuns) = Len(afBits)
    /\ afMax' = MaxAmplitude(afRuns)
    /\ afPc' = "filter"
    /\ afPrev' = 0 /\ afLast' = 0 /\ afCount' = 0
    /\ UNCHANGED <<afPacket, afBits, afRuns, afPhase>>
    /\ UNCHANGED <<crcVars, csVars, axVars, bsVars, txVars>>

\* lines 23-26: one sample
AfskFilter ==
    /\ afPc = "filter"
    /\ afCount < AudioLen
    /\ LET sample == AudioSample(afCount)
       IN  /\ afLast' = AlphaMul(FilterInput(afPrev, sample, afCount, afLast))
           /\ afPrev' = sample
    /\ afCount' = afCount + 1
    /\ UNCHANGED <<afPacket, afPc, afBits, afRuns, afPhase, afMax>>
    /\ UNCHANGED <<crcVars, csVars, axVars, bsVars, txVars>>

\* lines 27 and 104
AfskReturn ==
    /\ afPc = "filter"
    /\ afCount = AudioLen
    /\ afPc' = "done"
    /\ UNCHANGED <<afPacket, afBits, afRuns, afPhase, afMax, afPrev, afLast, afCount>>
    /\ UNCHANGED <<crcVars, csVars, axVars, bsVars, txVars>>

NextAfsk == AfskStart \/ AfskTone \/ AfskNormalize \/ AfskFilter \/ AfskReturn
SpecAfsk == InitAfsk /\ [][NextAfsk]_vars

(***************************************************************************)
(* APRSGUI.play_aprs (Main.py lines 153-162) from the information string   *)
(* on, with save_to_wav (lines 122-130) and play_audio (lines 132-133).    *)
(* Each press of the button is one request; wave.open and writeframes may  *)
(* raise OSError.  A request takes its file name from the clock, and the   *)
(* requests of the model fall in different seconds.                        *)
(***************************************************************************)
InitTx ==
    /\ txPc = "idle"
    /\ txInfo = <<>> /\ txPacket = None /\ txAudio = "none" /\ txName = 0
    /\ txClock = 0
    /\ txDisk = [n \in 1..MaxRequests |-> "absent"]
    /\ txPlayed = {}
    /\ CrcIdle /\ CsIdle /\ AxIdle /\ BsIdle /\ AfIdle

TxOther == UNCHANGED <<crcVars, csVars, axVars, bsVars, afVars>>

\* line 153: the handler is called; line 157: info
TxPress ==
    /\ txPc \in {"idle", "done", "failed"}
    /\ txClock < MaxRequests
    /\ \E inf \in SeqsUpTo(InfoChars, MaxInfoLen) : txInfo' = inf
    /\ txClock' = txClock + 1
    /\ txPc' = "frame"
    /\ txPacket' = None /\ txAudio' = "none" /\ txName' = 0
    /\ UNCHANGED <<txDisk, txPlayed>>
    /\ TxOther

\* line 158
TxFrame ==
    /\ txPc = "frame"
    /\ txPacket' = ax25_frame(CallYourCall, CallIOSPY1, CallPath, txInfo)
    /\ txPc' = IF txPacket'.err = "none" THEN "encode" ELSE "failed"
    /\ UNCHANGED <<txInfo, txAudio, txName, txClock, txDisk, txPlayed>>
    /\ TxOther

\* lines 159-160: afsk_encode returns the samples; the file name is made
TxEncode ==
    /\ txPc = "encode"
    /\ txAudio' = "complete"
    /\ txName' = txClock
    /\ txPc' = "open"
    /\ UNCHANGED <<txInfo, txPacket, txClock, txDisk, txPlayed>>
    /\ TxOther

\* lines 123-126: wave.open creates the file, or raises
TxOpen ==
    /\ txPc = "open"
    /\ \/ /\ txDisk' = [txDisk EXCEPT ![txName] = "partial"]
          /\ txPc' = "write"
       \/ /\ txPc' = "failed"
          /\ UNCHANGED txDisk
    /\ UNCHANGED <<txInfo, txPacket, txAudio, txName, txClock, txPlayed>>
    /\ TxOther

\* lines 127-130: the samples are written and the file closed, or
\* writeframes raises and the with statement closes what there is
TxWrite ==
    /\ txPc = "write"
    /\ \/ /\ txDisk' = [txDisk EXCEPT ![txName] = "complete"]
          /\ txPc' = "play"
       \/ /\ txPc' = "failed"
          /\ UNCHANGED txDisk
    /\ UNCHANGED <<txInfo, txPacket, txAudio, txName, txClock, txPlayed>>
    /\ TxOther

\* line 162
TxPlay ==
    /\ txPc = "play"
    /\ txPlayed' = txPlayed \cup {txName}
    /\ txPc' = "done"
    /\ UNCHANGED <<txInfo, txPacket, txAudio, txName, txClock, txDisk>>
    /\ TxOther

NextTx == TxPress \/ TxFrame \/ TxEncode \/ TxOpen \/ TxWrite \/ TxPlay
SpecTx == InitTx /\ [][NextTx]_vars

(***************************************************************************)
(* The CRC-16/X-25 of the catalogue, bit by bit: a 16-bit shift register   *)
(* held as the set of its one bits, all ones at the start; each message    *)
(* bit, least significant first, is XORed with bit 0, the register moves   *)
(* one place right and, when that XOR is 1, the taps of the reflected      *)
(* polynomial x^16 + x^12 + x^5 + 1 are flipped; the result is the         *)
(* complement of the register.                                             *)
(***************************************************************************)
X25Taps == {15, 10, 3}

SymDiff(A, B) == (A \ B) \cup (B \ A)

MessageBit(data, k) == (data[((k - 1) \div 8) + 1] \div Pow2((k - 1) % 8)) % 2

X25Step(reg, bit) ==
    LET moved == {i - 1 : i \in reg \ {0}}
    IN  IF (0 \in reg) # (bit = 1) THEN SymDiff(moved, X25Taps) ELSE moved

\* the register after the n lowest bits of a byte
RECURSIVE X25Byte(_, _, _)
X25Byte(reg, byte, n) ==
    IF n = 0 THEN reg
    ELSE X25Step(X25Byte(reg, byte, n - 1), (byte \div Pow2(n - 1)) % 2)

\* the register after the bytes from the i-th on (a register holds at most
\* 16 bits; counting them makes TLC evaluate it before the next byte)
RECURSIVE X25Register(_, _, _)
X25Register(reg, data, i) ==
    IF i > Len(data) \/ Cardinality(reg) > 16 THEN reg
    ELSE X25Register(X25Byte(reg, data[i], 8), data, i + 1)

RECURSIVE SetValue(_, _)
SetValue(reg, i) ==
    IF i > 15 THEN 0
    ELSE (IF i \in reg THEN Pow2(i) ELSE 0) + SetValue(reg, i + 1)

X25Reference(data) == SetValue((0..15) \ X25Register(0..15, data, 1), 0)

(***************************************************************************)
(* Claims about framing.                                                   *)
(***************************************************************************)
\* the bytes of a returned packet between the 32 leading flags and the
\* control byte: the packet ends with info, two checksum bytes and a flag
AddressField(packet, inf) ==
    SubSeq(packet, PREAMBLE_LENGTH + 1, Len(packet) - Len(inf) - 5)

AllAscii(calls) == \A i \in 1..Len(calls) : IsAscii(calls[i])

\* C1: in the packet ax25_frame returns, the last byte of the address field
\* has low bit 1 and every other byte of the address field has low bit 0; for
\* ASCII callsigns that last byte is byte 7 of the last of the 2 + len(path)
\* addresses
C1_AddressEndBit ==
    axOut.err = "none" =>
        LET a == AddressField(axOut.bytes, info)
        IN  /\ Len(a) >= 14
            /\ a[Len(a)] % 2 = 1
            /\ \A i \in 1..(Len(a) - 1) : a[i] % 2 = 0
            /\ (AllAscii(<<source, destination>> \o path)
                  => Len(a) = 7 * (2 + Len(path)))

C1_Witness == axOut.err = "none" /\ Len(path) = 2 /\ Len(info) > 0

\* C2: the packet ax25_frame returns is 32 flags, 7 bytes of destination
\* address, 7 of source address, 7 for each path callsign in order, 0x03,
\* 0xF0, the bytes of info, the X-25 checksum of everything between the
\* leading flags and the checksum (low byte first) and one flag
C2_FrameLayout ==
    axOut.err = "none" =>
        LET p == axOut.bytes
            n == 7 * (2 + Len(path))
            body == SubSeq(p, PREAMBLE_LENGTH + 1, PREAMBLE_LENGTH + n + 2 + Len(info))
            chk == X25Reference(body)
            at(k) == p[PREAMBLE_LENGTH + k]
            field(c, k) ==
                LET e == encode_callsign(c, 0).bytes
                IN  /\ Len(e) = 7
                    /\ \A i \in 1..6 : at(7 * k + i) = e[i]
                    /\ at(7 * k + 7) \div 2 = e[7] \div 2
        IN  /\ Len(p) = PREAMBLE_LENGTH + n + 2 + Len(info) + 2 + 1
            /\ \A i \in 1..PREAMBLE_LENGTH : p[i] = 126
            /\ field(destination, 0)
            /\ field(source, 1)
            /\ \A j \in 1..Len(path) : field(path[j], j + 1)
            /\ at(n + 1) = 3 /\ at(n + 2) = 240
            /\ \A i \in 1..Len(info) : at(n + 2 + i) = info[i]
            /\ at(n + 2 + Len(info) + 1) = chk % 256
            /\ at(n + 2 + Len(info) + 2) = chk \div 256
            /\ p[Len(p)] = 126

\* C2 for ASCII callsigns
C2_FrameLayoutAscii ==
    AllAscii(<<source, destination>> \o path) => C2_FrameLayout

C2_AsciiReached ==
    axOut.err = "none" /\ AllAscii(<<source, destination>> \o path) /\ Len(path) = 2

\* C3: crc16_ccitt returns a value in 0..65535 that is the CRC-16/X-25 of its
\* argument, and 0x906E for the bytes of "123456789"
C3_CrcIsX25 ==
    crcOut # -1 =>
        /\ crcOut \in 0..65535
        /\ crcOut = X25Reference(crcData)
        /\ (crcData = CheckString => crcOut = 36974)

C3_Witness == crcOut # -1 /\ crcData = CheckString

\* the callsign of the claim: upper-cased, then padded with spaces or cut to
\* 6 characters
ClaimChars(callsign) == First6(Ljust6(Upper(callsign)))

\* C4: encode_callsign returns exactly 7 bytes: twice each of the 6
\* characters of the upper-cased, padded or truncated callsign, then
\* (ssid << 1) | 0x60, whose low bit is 0; a callsign longer than 6
\* characters gives what its first 6 characters give
C4_SevenBytes ==
    csOut.err = "none" =>
        LET b == csOut.bytes
        IN  /\ Len(b) = 7
            /\ \A i \in 1..6 : b[i] = 2 * ClaimChars(csCall)[i]
            /\ b[7] = 96 + 2 * csSsid
            /\ b[7] % 2 = 0
            /\ csOut = encode_callsign(First6(csCall), csSsid)

\* C4 for ASCII callsigns
C4_SevenBytesAscii ==
    (IsAscii(csCall) /\ csOut # None) => (csOut.err = "none" /\ C4_SevenBytes)

C4_AsciiReached == csOut.err = "none" /\ IsAscii(csCall) /\ Len(csCall) > 6

(***************************************************************************)
(* Claims about the bit stream.                                            *)
(***************************************************************************)
\* the number of 0 bits among the first k bits of the packet
ZeroBits(packet, k) == Cardinality({j \in 1..k : MessageBit(packet, j) = 0})

\* the k-th bit emitted for the packet
Emitted(k) == bsOut[2 * PREAMBLE_LENGTH + k]

\* C5: the bits emitted for the packet follow the differential rule from a
\* running state of 1: an input 1 repeats the state, an input 0 complements
\* it; so the k-th emitted bit is 1 exactly when the first k input bits hold
\* an even number of zeros
C5_Differential ==
    bsOut # <<>> =>
        \A k \in 1..(8 * Len(bsPacket)) :
            LET before == IF k = 1 THEN 1 ELSE Emitted(k - 1)
            IN  /\ Emitted(k) = IF MessageBit(bsPacket, k) = 1 THEN before ELSE 1 - before
                /\ (Emitted(k) = 1) <=> (ZeroBits(bsPacket, k) % 2 = 0)

C5_Witness ==
    /\ bsOut # <<>> /\ Len(bsPacket) = 2
    /\ \E k \in 1..16 : MessageBit(bsPacket, k) = 0
    /\ \E k \in 1..16 : MessageBit(bsPacket, k) = 1

\* C6: for a non-empty packet of n bytes generate_bitstream returns
\* 64 + 8n + 2 bits, each 0 or 1; the first 64 are 0,1 thirty-two times and
\* the last two are 0,1
C6_Length ==
    (bsOut # <<>> /\ Len(bsPacket) > 0) =>
        /\ Len(bsOut) = 64 + 8 * Len(bsPacket) + 2
        /\ \A i \in 1..Len(bsOut) : bsOut[i] \in {0, 1}
        /\ \A i \in 1..32 : bsOut[2 * i - 1] = 0 /\ bsOut[2 * i] = 1
        /\ bsOut[Len(bsOut) - 1] = 0 /\ bsOut[Len(bsOut)] = 1

C6_Witness == bsOut # <<>> /\ Len(bsPacket) = 2 /\ bsPacket[2] = 255

(***************************************************************************)
(* Claims about the audio.                                                 *)
(***************************************************************************)
\* C7: the phase generate_continuous_tone returns is the whole sum, phase
\* plus the advance of the tone, reduced modulo a cycle, so the phase
\* carried from bit to bit in afsk_encode stays under a cycle (3 thirds)
C7_PhaseReduced ==
    /\ afPhase \in 0..2
    /\ \A i \in 1..Len(afRuns) :
          LET end == IF i = Len(afRuns) THEN afPhase ELSE afRuns[i + 1][2]
          IN  end = (afRuns[i][2] + (afRuns[i][1] \div 100)) % 3

\* C9: every sample highpass_filter appends for afsk_encode is at most 32767
\* in absolute value, the first being 0, so each fits a signed 16-bit sample
C9_SampleRange ==
    (afPc \in {"filter", "done"} /\ afCount > 0) =>
        /\ afLast >= -32767 /\ afLast <= 32767
        /\ (afCount = 1 => afLast = 0)

C9_Witness == afPc = "filter" /\ afCount > 1000 /\ Abs(afLast) > 32000

\* C10: afsk_encode makes one tone of 320 samples for each bit, in order,
\* MARK_TONE for 1 and SPACE_TONE for 0; the first starts at phase 0 and each
\* next one at the angle the one before it ends at; the buffer returned has
\* 320 * (64 + 8n + 2) samples
C10_OneRunPerBit ==
    /\ Len(afRuns) <= Len(afBits)
    /\ afPc \in {"tone", "done"} =>
          \A i \in 1..Len(afRuns) :
              /\ afRuns[i][1] = IF afBits[i] = 1 THEN 1800 ELSE 1600
              /\ i = 1 => afRuns[i][2] = 0
              /\ i > 1 =>
                    (AngleIndex(afRuns[i][1], 0, afRuns[i][2])
                       - AngleIndex(afRuns[i - 1][1], 320, afRuns[i - 1][2])) % 480 = 0
    /\ afPc \in {"filter", "done"} => Len(afRuns) = Len(afBits)
    /\ afPc = "filter" => afCount <= 320 * Len(afBits)
    /\ afPc = "done" => afCount = 320 * (64 + 8 * Len(afPacket) + 2)

C10_Witness == afPc = "done" /\ Len(afPacket) = 1 /\ afCount = 23680

(***************************************************************************)
(* Claims about a request.                                                 *)
(***************************************************************************)
\* C8: the file of a request is created only once the sample buffer is
\* complete; a request that fails at any stage, as it does on non-ASCII
\* info, leaves no file of its own, partial or complete, and plays nothing
C8_AllOrNothing ==
    /\ \A n \in 1..MaxRequests :
          txDisk[n] # "absent" =>
              (n < txClock \/ (n = txClock /\ txAudio = "complete"))
    /\ (txPc \notin {"idle", "frame"} /\ ~IsAscii(txInfo)) => txPc = "failed"
    /\ txPc = "failed" =>
          /\ txDisk[txClock] = "absent"
          /\ txClock \notin txPlayed
====
